---- MODULE Spec2Model ----
(***************************************************************************)
(* Model of skills/md-to-pdf/scripts/md_to_pdf.py: the orientation         *)
(* heuristic, the CSS colour validator, the colour-map builder and the     *)
(* status-column table annotator.                                          *)
(*                                                                         *)
(* A Python str is a sequence of one-character strings.  HTML markup is a  *)
(* sequence of lexemes, each lexeme a sequence of characters: a tag        *)
(* ("<" ... ">", holding no other "<" or ">") is one lexeme and every text *)
(* character is a lexeme of its own.  The regular expressions of the       *)
(* source only ever match from a "<" to a ">", so their matches start and  *)
(* end on lexeme borders, and the flat string is Flatten of the lexemes.   *)
(***************************************************************************)
EXTENDS Integers, Sequences, FiniteSets, TLC

VARIABLES
  md_content,     \* detect_orientation's argument
  orientation,    \* its result, "unset" before the call
  value,          \* __is_valid_css_color's argument
  verdict,        \* its result: "unset", "accepted" or "rejected"
  status_colors,  \* args.status_colors
  custom_colors,  \* args.custom_colors: whether given, and the decoded object
  color_map,      \* main's color_map
  error,          \* what parse_custom_colors printed before sys.exit(1)
  html_body,      \* main's html_body
  prev,           \* the markup given to the last call of apply_status_colors
  pc              \* where main stands

vars == <<md_content, orientation, value, verdict, status_colors,
          custom_colors, color_map, error, html_body, prev, pc>>

(***************************************************************************)
(* Bounds of the enumerated inputs.                                        *)
(***************************************************************************)
MaxMdLen == 7        \* characters of markdown text given to detect_orientation
MaxHexDigits == 9    \* characters after "#" in a generated hex-like token
MaxTokenLen == 4     \* characters of a free-form colour token
MaxCols == 2         \* cells of a generated table row
MaxOverrides == 2    \* entries of a generated --custom-colors object

(***************************************************************************)
(* Python str helpers.                                                     *)
(***************************************************************************)
RECURSIVE Flatten(_)
Flatten(ss) == IF ss = <<>> THEN <<>> ELSE Head(ss) \o Flatten(Tail(ss))

\* The ASCII part of what str.strip() strips and what \s matches.
Whitespace == {" ", "\t", "\n", "\r", "\f"}

\* The ASCII part of the line boundaries of str.splitlines().
LineBreaks == {"\n", "\r", "\f"}

RECURSIVE LStrip(_)
LStrip(s) ==
  IF s # <<>> /\ Head(s) \in Whitespace THEN LStrip(Tail(s)) ELSE s

RECURSIVE RStrip(_)
RStrip(s) ==
  IF s # <<>> /\ s[Len(s)] \in Whitespace
  THEN RStrip(SubSeq(s, 1, Len(s) - 1))
  ELSE s

\* str.strip()
Strip(s) == RStrip(LStrip(s))

\* str.startswith(p)
StartsWith(s, p) == Len(p) <= Len(s) /\ SubSeq(s, 1, Len(p)) = p

\* str.endswith(p)
EndsWith(s, p) ==
  Len(p) <= Len(s) /\ SubSeq(s, Len(s) - Len(p) + 1, Len(s)) = p

\* str.count(c) for a one-character c
Count(s, c) == Cardinality({i \in 1..Len(s) : s[i] = c})

RECURSIVE SplitFrom(_, _, _)
SplitFrom(s, i, cur) ==
  IF i > Len(s) THEN (IF cur = <<>> THEN <<>> ELSE <<cur>>)
  ELSE IF s[i] \in LineBreaks
       THEN <<cur>> \o
            SplitFrom(s,
                      IF s[i] = "\r" /\ i < Len(s) /\ s[i + 1] = "\n"
                      THEN i + 2 ELSE i + 1,
                      <<>>)
       ELSE SplitFrom(s, i + 1, Append(cur, s[i]))

\* str.splitlines(): no empty last line after a final line break.
Splitlines(s) == SplitFrom(s, 1, <<>>)

UpperOf ==
  [c \in {"a","b","c","d","e","f","g","h","i","j","k","l","m",
          "n","o","p","q","r","s","t","u","v","w","x","y","z"} |->
     CASE c = "a" -> "A" [] c = "b" -> "B" [] c = "c" -> "C" [] c = "d" -> "D"
       [] c = "e" -> "E" [] c = "f" -> "F" [] c = "g" -> "G" [] c = "h" -> "H"
       [] c = "i" -> "I" [] c = "j" -> "J" [] c = "k" -> "K" [] c = "l" -> "L"
       [] c = "m" -> "M" [] c = "n" -> "N" [] c = "o" -> "O" [] c = "p" -> "P"
       [] c = "q" -> "Q" [] c = "r" -> "R" [] c = "s" -> "S" [] c = "t" -> "T"
       [] c = "u" -> "U" [] c = "v" -> "V" [] c = "w" -> "W" [] c = "x" -> "X"
       [] c = "y" -> "Y" [] c = "z" -> "Z"]

LowerLetters == DOMAIN UpperOf

UpperLetters == {UpperOf[c] : c \in LowerLetters}

UpperChar(c) == IF c \in LowerLetters THEN UpperOf[c] ELSE c

LowerChar(c) ==
  IF c \in UpperLetters THEN CHOOSE d \in LowerLetters : UpperOf[d] = c ELSE c

\* str.upper()
Upper(s) == [i \in 1..Len(s) |-> UpperChar(s[i])]

\* str.lower()
Lower(s) == [i \in 1..Len(s) |-> LowerChar(s[i])]

(***************************************************************************)
(* detect_orientation                                                      *)
(***************************************************************************)
\* WideTableRow counting pipes for columns, without the "- 1" of line 90.
WideTableRow_PipesAsColumns(line) ==
  LET stripped == Strip(line) IN
    /\ StartsWith(stripped, <<"|">>)
    /\ EndsWith(stripped, <<"|">>)
    /\ Count(stripped, "|") >= 4

\* The test of one line: lines 88-91.
WideTableRow(line) ==
  LET stripped == Strip(line) IN
    /\ StartsWith(stripped, <<"|">>)
    /\ EndsWith(stripped, <<"|">>)
    /\ Count(stripped, "|") - 1 >= 4

detect_orientation(md) ==
  LET lines == Splitlines(md) IN
    IF \E i \in 1..Len(lines) : WideTableRow(lines[i])
    THEN "landscape"
    ELSE "portrait"

(***************************************************************************)
(* __is_valid_css_color                                                     *)
(***************************************************************************)
Digits == {"0","1","2","3","4","5","6","7","8","9"}

HexDigits == Digits \cup {"a","b","c","d","e","f","A","B","C","D","E","F"}

\* One element of a regular expression: between lo and hi characters of a
\* class.  A literal is a class of one character taken exactly once.
Lit(c) == [set |-> {c}, lo |-> 1, hi |-> 1]

Rep(S, lo, hi) == [set |-> S, lo |-> lo, hi |-> hi]

\* The positions a match can stand at after one element, from positions P.
Step(P, item, s) ==
  {q \in 0..Len(s) :
     \E p \in P :
       /\ q - p >= item.lo
       /\ q - p <= item.hi
       /\ \A j \in (p + 1)..q : s[j] \in item.set}

RECURSIVE Positions(_, _, _)
Positions(P, items, s) ==
  IF items = <<>> THEN P
  ELSE Positions(Step(P, Head(items), s), Tail(items), s)

\* re.match(r"^...$", s): "$" stands at the end or before a final newline.
MatchAnchored(items, s) ==
  \E p \in Positions({0}, items, s) :
     \/ p = Len(s)
     \/ p = Len(s) - 1 /\ s[Len(s)] = "\n"

\* ^#[0-9a-fA-F]{3,8}$
HexPattern == <<Lit("#"), Rep(HexDigits, 3, 8)>>

\* \s*\d{1,3}\s*
Channel(n) == <<Rep(Whitespace, 0, n), Rep(Digits, 1, 3), Rep(Whitespace, 0, n)>>

\* ^rgba?\(\s*\d{1,3}\s*,\s*\d{1,3}\s*,\s*\d{1,3}\s*
RgbHead(n) ==
  <<Lit("r"), Lit("g"), Lit("b"), Rep({"a"}, 0, 1), Lit("(")>>
  \o Channel(n) \o <<Lit(",")>> \o Channel(n) \o <<Lit(",")>> \o Channel(n)

\* (,\s*[\d.]+\s*)
RgbAlpha(n) ==
  <<Lit(","), Rep(Whitespace, 0, n), Rep(Digits \cup {"."}, 1, n),
    Rep(Whitespace, 0, n)>>

\* The rgb()/rgba() pattern of line 310, its optional group absent or present.
MatchRgb(s) ==
  LET n == Len(s) IN
    \/ MatchAnchored(RgbHead(n) \o <<Lit(")")>>, s)
    \/ MatchAnchored(RgbHead(n) \o RgbAlpha(n) \o <<Lit(")")>>, s)

NamedColors ==
  { <<"b","l","a","c","k">>,
    <<"w","h","i","t","e">>,
    <<"r","e","d">>,
    <<"g","r","e","e","n">>,
    <<"b","l","u","e">>,
    <<"y","e","l","l","o","w">>,
    <<"o","r","a","n","g","e">>,
    <<"p","u","r","p","l","e">>,
    <<"g","r","a","y">>,
    <<"g","r","e","y">>,
    <<"p","i","n","k">>,
    <<"b","r","o","w","n">>,
    <<"c","y","a","n">>,
    <<"m","a","g","e","n","t","a">>,
    <<"t","r","a","n","s","p","a","r","e","n","t">> }

\* _is_valid_css_color with the hex pattern left open at its end: no "$".
_is_valid_css_color_OpenHex(v) ==
  LET stripped == Strip(v) IN
    \/ Positions({0}, HexPattern, stripped) # {}
    \/ MatchRgb(stripped)
    \/ Lower(stripped) \in NamedColors

_is_valid_css_color(v) ==
  LET stripped == Strip(v) IN
    \/ MatchAnchored(HexPattern, stripped)
    \/ MatchRgb(stripped)
    \/ Lower(stripped) \in NamedColors

(***************************************************************************)
(* DEFAULT_STATUS_COLORS: a dict, kept in insertion order as a sequence of *)
(* entries.                                                                *)
(***************************************************************************)
DEFAULT_STATUS_COLORS ==
  << [keyword |-> <<"E","X","I","S","T","S">>,
      bg |-> <<"#","d","4","e","d","d","a">>, text |-> <<"#","1","5","5","7","2","4">>],
     [keyword |-> <<"M","I","S","S","I","N","G">>,
      bg |-> <<"#","f","8","d","7","d","a">>, text |-> <<"#","7","2","1","c","2","4">>],
     [keyword |-> <<"P","A","R","T","I","A","L">>,
      bg |-> <<"#","f","f","f","3","c","d">>, text |-> <<"#","8","5","6","4","0","4">>],
     [keyword |-> <<"T","O","D","O">>,
      bg |-> <<"#","f","f","f","3","c","d">>, text |-> <<"#","8","5","6","4","0","4">>],
     [keyword |-> <<"D","O","N","E">>,
      bg |-> <<"#","d","4","e","d","d","a">>, text |-> <<"#","1","5","5","7","2","4">>],
     [keyword |-> <<"C","L","I","E","N","T","-","S","I","D","E">>,
      bg |-> <<"#","d","1","e","c","f","1">>, text |-> <<"#","0","c","5","4","6","0">>],
     [keyword |-> <<"N","E","E","D","S"," ","C","L","A","R","I","F","I","C","A","T","I","O","N">>,
      bg |-> <<"#","e","8","d","a","e","f">>, text |-> <<"#","5","1","2","e","5","f">>],
     [keyword |-> <<"W","A","R","N","I","N","G">>,
      bg |-> <<"#","f","f","f","3","c","d">>, text |-> <<"#","8","5","6","4","0","4">>],
     [keyword |-> <<"E","R","R","O","R">>,
      bg |-> <<"#","f","8","d","7","d","a">>, text |-> <<"#","7","2","1","c","2","4">>],
     [keyword |-> <<"N","/","A">>,
      bg |-> <<"#","e","2","e","3","e","5">>, text |-> <<"#","4","9","5","0","5","7">>] >>

(***************************************************************************)
(* parse_custom_colors and the merge of main                               *)
(***************************************************************************)
\* The text colour of an override that gives a background only: line 348.
DefaultText == <<"#","1","a","1","a","1","a">>

RECURSIVE SplitColon(_, _)
\* str.split(":"), cur being the part read so far.
SplitColon(s, cur) ==
  IF s = <<>> THEN <<cur>>
  ELSE IF Head(s) = ":" THEN <<cur>> \o SplitColon(Tail(s), <<>>)
  ELSE SplitColon(Tail(s), Append(cur, Head(s)))

RECURSIVE JoinColon(_)
\* ":".join(parts)
JoinColon(parts) ==
  IF parts = <<>> THEN <<>>
  ELSE IF Len(parts) = 1 THEN parts[1]
  ELSE parts[1] \o <<":">> \o JoinColon(Tail(parts))

\* Lines 340-348: the (bg, text) an override value resolves to.
ResolveColors(color_str) ==
  IF \E i \in 1..Len(color_str) : color_str[i] = ":"
  THEN LET parts == SplitColon(color_str, <<>>) IN
         [bg |-> parts[1],
          text |-> IF Len(parts) > 2 THEN JoinColon(Tail(parts)) ELSE parts[2]]
  ELSE [bg |-> color_str, text |-> DefaultText]

\* DictSet putting every item last, an existing key's old item left in.
DictSet_AlwaysAppend(d, k, bg, text) ==
  Append(d, [keyword |-> k, bg |-> bg, text |-> text])

\* d[k] = (bg, text) on an insertion-ordered dict: an existing key keeps its
\* place and takes the new value, a new key goes last.
DictSet(d, k, bg, text) ==
  LET e == [keyword |-> k, bg |-> bg, text |-> text] IN
    IF \E i \in 1..Len(d) : d[i].keyword = k
    THEN [i \in 1..Len(d) |-> IF d[i].keyword = k THEN e ELSE d[i]]
    ELSE Append(d, e)

NoError == [kind |-> "none", keyword |-> <<>>, bad |-> <<>>]

RECURSIVE ParseFrom(_, _, _)
\* The loop of lines 335-357 from entry i on, result being the dict so far.
\* A failed check prints its message and exits: the error says which check
\* (kind), for which keyword, and the value the message quotes.
ParseFrom(raw, i, result) ==
  IF i > Len(raw) THEN [ok |-> TRUE, result |-> result, error |-> NoError]
  ELSE
    LET e == raw[i]
        c == ResolveColors(e.color_str)
    IN
      IF ~e.isstr
      THEN [ok |-> FALSE, result |-> <<>>,
            error |-> [kind |-> "not a string", keyword |-> e.keyword,
                       bad |-> <<>>]]
      ELSE IF ~_is_valid_css_color(c.bg)
      THEN [ok |-> FALSE, result |-> <<>>,
            error |-> [kind |-> "background", keyword |-> e.keyword,
                       bad |-> c.bg]]
      ELSE IF ~_is_valid_css_color(c.text)
      THEN [ok |-> FALSE, result |-> <<>>,
            error |-> [kind |-> "text", keyword |-> e.keyword, bad |-> c.text]]
      ELSE ParseFrom(raw, i + 1, DictSet(result, Upper(e.keyword), c.bg, c.text))

RECURSIVE ParseSkippingFrom(_, _, _)
\* ParseFrom passing over an item that fails a check instead of exiting.
ParseSkippingFrom(raw, i, result) ==
  IF i > Len(raw) THEN [ok |-> TRUE, result |-> result, error |-> NoError]
  ELSE
    LET e == raw[i]
        c == ResolveColors(e.color_str)
    IN
      IF ~e.isstr \/ ~_is_valid_css_color(c.bg) \/ ~_is_valid_css_color(c.text)
      THEN ParseSkippingFrom(raw, i + 1, result)
      ELSE ParseSkippingFrom(raw, i + 1,
                             DictSet(result, Upper(e.keyword), c.bg, c.text))

parse_custom_colors_Skipping(raw) == ParseSkippingFrom(raw, 1, <<>>)

\* raw is the decoded JSON object, its items in order.
parse_custom_colors(raw) == ParseFrom(raw, 1, <<>>)

RECURSIVE DictUpdate(_, _)
\* dict.update(other)
DictUpdate(d, other) ==
  IF other = <<>> THEN d
  ELSE DictUpdate(DictSet(d, Head(other).keyword, Head(other).bg,
                          Head(other).text),
                  Tail(other))

(***************************************************************************)
(* apply_status_colors                                                     *)
(***************************************************************************)
T_table == <<"<","t","a","b","l","e",">">>

T_table_end == <<"<","/","t","a","b","l","e",">">>

T_thead == <<"<","t","h","e","a","d",">">>

T_thead_end == <<"<","/","t","h","e","a","d",">">>

T_tbody == <<"<","t","b","o","d","y",">">>

T_tbody_end == <<"<","/","t","b","o","d","y",">">>

T_tr == <<"<","t","r",">">>

T_tr_end == <<"<","/","t","r",">">>

T_th == <<"<","t","h",">">>

T_th_end == <<"<","/","t","h",">">>

T_td == <<"<","t","d",">">>

T_td_end == <<"<","/","t","d",">">>

T_strong == <<"<","s","t","r","o","n","g",">">>

T_strong_end == <<"<","/","s","t","r","o","n","g",">">>

\* "<td" and "<th", the starts of the cell patterns of lines 126 and 142.
P_td == <<"<","t","d">>

P_th == <<"<","t","h">>

StatusWord == <<"s","t","a","t","u","s">>

\* The pieces of the f-string of lines 156-161 around bg and text.
StyleOpen == <<"<","t","d"," ","s","t","y","l","e","=","\"","b","a","c","k","g","r","o","u","n","d","-","c","o","l","o","r",":"," ">>

StyleMid == <<";"," ","c","o","l","o","r",":"," ">>

StyleClose == <<";"," ","f","o","n","t","-","w","e","i","g","h","t",":"," ","b","o","l","d",";","\"",">">>

\* The opening tag of new_td.
StyledTd(bg, text) == StyleOpen \o bg \o StyleMid \o text \o StyleClose

Min(S) == CHOOSE i \in S : \A j \in S : i <= j

\* The first index from `from` on whose lexeme is x, 0 when there is none.
Find(h, x, from) ==
  LET S == {i \in from..Len(h) : h[i] = x} IN IF S = {} THEN 0 ELSE Min(S)

\* <[^>]+>
IsTag(x) == Len(x) >= 3 /\ x[1] = "<" /\ x[Len(x)] = ">"

\* <td([^>]*)>
IsTdOpen(x) == StartsWith(x, P_td) /\ x[Len(x)] = ">"

\* <th[^>]*>
IsThOpen(x) == StartsWith(x, P_th) /\ x[Len(x)] = ">"

FindTdOpen(h, from) ==
  LET S == {i \in from..Len(h) : IsTdOpen(h[i])} IN
    IF S = {} THEN 0 ELSE Min(S)

FindThOpen(h, from) ==
  LET S == {i \in from..Len(h) : IsThOpen(h[i])} IN
    IF S = {} THEN 0 ELSE Min(S)

\* re.sub(r"<[^>]+>", "", markup): the text left, as a string.
PlainText(markup) == Flatten(SelectSeq(markup, LAMBDA x : ~IsTag(x)))

\* The first index at which old occurs in s, 0 when it does not.
IndexOf(s, old) ==
  LET S == {i \in 1..(Len(s) - Len(old) + 1) :
              SubSeq(s, i, i + Len(old) - 1) = old}
  IN IF S = {} THEN 0 ELSE Min(S)

\* str.replace(old, new, 1)
ReplaceFirst(s, old, new) ==
  LET i == IndexOf(s, old) IN
    IF i = 0 THEN s
    ELSE SubSeq(s, 1, i - 1) \o new \o SubSeq(s, i + Len(old), Len(s))

RECURSIVE ReplaceAll(_, _, _)
\* str.replace(old, new), old not empty
ReplaceAll(s, old, new) ==
  LET i == IndexOf(s, old) IN
    IF i = 0 THEN s
    ELSE SubSeq(s, 1, i - 1) \o new
         \o ReplaceAll(SubSeq(s, i + Len(old), Len(s)), old, new)

RECURSIVE CellsFrom(_, _)
\* re.finditer(r"<td([^>]*)>(.*?)</td>", row_html) from index `from` on: each
\* match as the indices of its opening tag and of its "</td>".
CellsFrom(row, from) ==
  LET a == FindTdOpen(row, from)
      b == IF a = 0 THEN 0 ELSE Find(row, T_td_end, a + 1)
  IN IF a = 0 \/ b = 0 THEN <<>>
     ELSE <<[open |-> a, close |-> b]>> \o CellsFrom(row, b + 1)

RECURSIVE HeadersFrom(_, _)
\* re.findall(r"<th[^>]*>(.*?)</th>", header_content)
HeadersFrom(hc, from) ==
  LET a == FindThOpen(hc, from)
      b == IF a = 0 THEN 0 ELSE Find(hc, T_th_end, a + 1)
  IN IF a = 0 \/ b = 0 THEN <<>>
     ELSE <<SubSeq(hc, a + 1, b - 1)>> \o HeadersFrom(hc, b + 1)

\* FirstMatch going on after a match: the last matching keyword wins.
FirstMatch_LastWins(plain_text, cmap) ==
  LET S == {i \in 1..Len(cmap) :
              \/ StartsWith(plain_text, cmap[i].keyword)
              \/ plain_text = cmap[i].keyword}
  IN IF S = {} THEN 0 ELSE CHOOSE i \in S : \A j \in S : j <= i

\* Lines 154-155 (cmap is color_map): the index in the map of the first keyword the plain text
\* starts with or equals, 0 when there is none.
FirstMatch(plain_text, cmap) ==
  LET S == {i \in 1..Len(cmap) :
              \/ StartsWith(plain_text, cmap[i].keyword)
              \/ plain_text = cmap[i].keyword}
  IN IF S = {} THEN 0 ELSE Min(S)

\* Lines 160-162: old_td, new_td and the replacement in the row.
RestyleCell(row_html, cell, entry) ==
  LET cell_content == SubSeq(row_html, cell.open + 1, cell.close - 1)
      old_td == SubSeq(row_html, cell.open, cell.close)
      new_td == <<StyledTd(entry.bg, entry.text)>> \o cell_content
                \o <<T_td_end>>
  IN ReplaceFirst(row_html, old_td, new_td)

\* Lines 140-165.  status_col counts from 0, as in the source.
process_row(row_html, status_col, cmap) ==
  LET cells == CellsFrom(row_html, 1) IN
    IF status_col >= Len(cells) THEN row_html
    ELSE
      LET cell == cells[status_col + 1]
          cell_content == SubSeq(row_html, cell.open + 1, cell.close - 1)
          plain_text == Strip(PlainText(cell_content))
          k == FirstMatch(plain_text, cmap)
      IN IF k = 0 THEN row_html
         ELSE RestyleCell(row_html, cell, cmap[k])

RECURSIVE ProcessRows(_, _, _)
\* Line 168: re.sub(r"<tr>(?=.*?<td)(.*?)</tr>", process_row, table_html).
\* A match starts at a "<tr>" with a "<td" somewhere after it in the table
\* and ends at the first "</tr>" after it.
ProcessRows(table_html, status_col, cmap) ==
  LET i == Find(table_html, T_tr, 1)
      j == IF i = 0 THEN 0 ELSE Find(table_html, T_tr_end, i + 1)
      ahead == i # 0 /\ \E k \in (i + 1)..Len(table_html) :
                           StartsWith(table_html[k], P_td)
  IN IF i = 0 \/ j = 0 \/ ~ahead THEN table_html
     ELSE SubSeq(table_html, 1, i - 1)
          \o process_row(SubSeq(table_html, i, j), status_col, cmap)
          \o ProcessRows(SubSeq(table_html, j + 1, Len(table_html)),
                         status_col, cmap)

\* Lines 117-125: header_content, in a one-element sequence, or <<>> when
\* neither search matches.
HeaderContent(table_html) ==
  LET a == Find(table_html, T_thead, 1)
      b == IF a = 0 THEN 0 ELSE Find(table_html, T_thead_end, a + 1)
      i == Find(table_html, T_tr, 1)
      k == IF i = 0 THEN 0 ELSE Find(table_html, T_th_end, i + 1)
      j == IF k = 0 THEN 0 ELSE Find(table_html, T_tr_end, k + 1)
  IN IF a # 0 /\ b # 0 THEN <<SubSeq(table_html, a + 1, b - 1)>>
     ELSE IF i # 0 /\ k # 0 /\ j # 0 THEN <<SubSeq(table_html, i + 1, j - 1)>>
     ELSE <<>>

\* Lines 129-134: the indices (from 0) of the headers reading "status".
StatusColumns(headers) ==
  {i \in 0..(Len(headers) - 1) :
     Lower(Strip(PlainText(headers[i + 1]))) = StatusWord}

\* process_table taking the first column when no header reads "status".
process_table_DefaultColumn(table_html, cmap) ==
  LET header_match == HeaderContent(table_html) IN
    IF header_match = <<>> THEN table_html
    ELSE
      LET cols == StatusColumns(HeadersFrom(header_match[1], 1)) IN
        ProcessRows(table_html, IF cols = {} THEN 0 ELSE Min(cols), cmap)

\* Lines 115-169.
process_table(table_html, cmap) ==
  LET header_match == HeaderContent(table_html) IN
    IF header_match = <<>> THEN table_html
    ELSE
      LET headers == HeadersFrom(header_match[1], 1)
          cols == StatusColumns(headers)
      IN IF cols = {} THEN table_html
         ELSE ProcessRows(table_html, Min(cols), cmap)

RECURSIVE apply_status_colors(_, _)
\* Line 172: re.sub(r"<table>(.*?)</table>", ..., html).
apply_status_colors(html, cmap) ==
  LET i == Find(html, T_table, 1)
      j == IF i = 0 THEN 0 ELSE Find(html, T_table_end, i + 1)
  IN IF i = 0 \/ j = 0 THEN html
     ELSE SubSeq(html, 1, i)
          \o process_table(SubSeq(html, i + 1, j - 1), cmap)
          \o <<T_table_end>>
          \o apply_status_colors(SubSeq(html, j + 1, Len(html)), cmap)

\* A string as markup text: one lexeme per character.
Txt(s) == [i \in 1..Len(s) |-> <<s[i]>>]

RECURSIVE StripStrong(_, _)
\* Lines 434-435: for each keyword of the map in order, replace
\* "<strong>KEYWORD</strong>" by "KEYWORD" everywhere.
StripStrong(html, cmap) ==
  IF cmap = <<>> THEN html
  ELSE StripStrong(
         ReplaceAll(html,
                    <<T_strong>> \o Txt(Head(cmap).keyword)
                    \o <<T_strong_end>>,
                    Txt(Head(cmap).keyword)),
         Tail(cmap))

(***************************************************************************)
(* Inputs                                                                  *)
(***************************************************************************)
Seqs(S, n) == UNION {[1..k -> S] : k \in 0..n}

\* Markdown text: pipes, a cell character, a blank and a line break.
MdInputs == Seqs({"|", "a", " ", "\n"}, MaxMdLen)

\* "#" and up to MaxHexDigits characters, hexadecimal or not.
HexLikeTokens == {<<"#">> \o d : d \in Seqs({"0", "F", "g"}, MaxHexDigits)}

FreeTokens == Seqs({"#", "r", "e", "d", "E", " ", ";"}, MaxTokenLen)

SampleTokens ==
  { <<"r","g","b","(","1","0",",","2","0",",","3","0",")">>,
    <<"r","g","b","a","(","1","0",",","2","0",",","3","0",",","0",".","5",")">>,
    <<"r","g","b","("," ","1"," ",","," ","2"," ",","," ","3"," ",")">>,
    <<"r","g","b","(","1",",","2",")">>,
    <<"r","g","b","(","1",",","2",",","3",",","4",",","5",")">>,
    <<"r","g","b","(","1","2","3","4",",","2",",","3",")">>,
    <<"r","g","b","(","1",",","2",",","3",")",";">>,
    <<"r","g","b","a","(","1",",","2",",","3",",",".",")">>,
    <<"r","g","b","(","1",",","2",",","3">>,
    <<"R","G","B","(","1",",","2",",","3",")">>,
    <<"r","g","b","(","1",";","2",",","3",")">>,
    <<"c","h","a","r","t","r","e","u","s","e">>,
    <<"j","a","v","a","s","c","r","i","p","t",":","a","l","e","r","t","(","1",")">>,
    <<"a","b","c">>,
    <<"t","r","a","n","s","p","a","r","e","n","t">>,
    <<" ","T","r","a","n","s","p","a","r","e","n","t","\n">>,
    <<"r","e","d","\"">>,
    <<"#","a","b","c">>,
    <<"#","a","a","b","b","c","c">>,
    <<"#","a","a","b","b","c","c","d","d">>,
    <<"#","a","b">>,
    <<"#","1","2","3","4","5">>,
    <<"\t","#","1","2","3","4","5","6","7"," ">>,
    <<"#","a","b","c","\"",">">> }

ColorTokens == HexLikeTokens \cup FreeTokens \cup SampleTokens

\* Override keywords: one of a default, one new in two spellings, and one
\* that a default keyword is a prefix of.
OverrideKeywords ==
  { <<"e","x","i","s","t","s">>, <<"f","o","o">>, <<"F","o","o">>,
    <<"t","o","d","o","s">> }

OverrideValues ==
  { <<"#","1","1","1","1","1","1",":","#","e","e","e","e","e","e">>,
    <<"#","1","1","2","2","3","3">>,
    <<" ","r","e","d"," ",":"," ","B","l","u","e"," ">>,
    <<"#","1","2","3","4","5",":","#","f","f","f">>,
    <<"r","g","b","(","1",",","2",",","3",")">>,
    <<"b","a","d">>,
    <<"#","1","1","1",":","#","f","f",";">>,
    <<"r","e","d",":","#","f","f","f",":","x">>,
    <<"#","f","f","f","\"",">">> }

\* Values of an object of one item: every free-form and sample token as
\* the background, every sample token as the text colour.
TokenValues ==
  FreeTokens \cup SampleTokens
  \cup {<<"r","e","d",":">> \o t : t \in SampleTokens}

TokenObjects ==
  {<<[keyword |-> <<"f","o","o">>, isstr |-> TRUE, color_str |-> v]>> :
     v \in TokenValues}

\* The items of a decoded JSON object: string values, and one that is not.
OverrideItems ==
  {[keyword |-> k, isstr |-> TRUE, color_str |-> v] :
     k \in OverrideKeywords, v \in OverrideValues}
  \cup {[keyword |-> k, isstr |-> FALSE, color_str |-> <<>>] :
          k \in OverrideKeywords}

\* Objects of up to MaxOverrides items: the keys of an object are distinct.
OverrideObjects ==
  {raw \in Seqs(OverrideItems, MaxOverrides) :
     \A i, j \in 1..Len(raw) : i # j => raw[i].keyword # raw[j].keyword}

NotGiven == [given |-> FALSE, raw |-> <<>>]

Given(raw) == [given |-> TRUE, raw |-> raw]

Td(content) == <<T_td>> \o content \o <<T_td_end>>

Th(content) == <<T_th>> \o content \o <<T_th_end>>

Row(cells) == <<T_tr>> \o Flatten(cells) \o <<T_tr_end>>

T_td_left == <<"<","t","d"," ","a","l","i","g","n","=","\"","l","e","f","t","\"",">">>

T_th_left == <<"<","t","h"," ","a","l","i","g","n","=","\"","l","e","f","t","\"",">">>

T_em == <<"<","e","m",">">>

T_em_end == <<"<","/","e","m",">">>

W_DONE == Txt(<<"D","O","N","E">>)

W_Status == Txt(<<"S","t","a","t","u","s">>)

\* The cells a generated row is made of: a keyword, a keyword behind an
\* earlier keyword that is its prefix, a keyword with blanks and detail, the
\* wrong case, a cell with attributes, a keyword in <strong>, a header cell.
CellPool ==
  { Td(W_DONE),
    Td(Txt(<<"T","O","D","O","S">>)),
    Td(Txt(<<" ","N","/","A"," ","x"," ">>)),
    Td(Txt(<<"d","o","n","e">>)),
    <<T_td_left>> \o W_DONE \o <<T_td_end>>,
    Td(<<T_strong>> \o W_DONE \o <<T_strong_end>>),
    Th(Txt(<<"x">>)) }

FirstRows == {Row(cells) : cells \in Seqs(CellPool, MaxCols)}

\* A second row: another data row, a row with a header cell reading
\* "Status", a row of one cell.
SecondRows ==
  { Row(<<Td(Txt(<<"o","k">>)), Td(Txt(<<"T","O","D","O">>))>>),
    Row(<<Th(W_Status), Td(W_DONE)>>),
    Row(<<Td(W_DONE)>>) }

Bodies == {<<>>} \cup FirstRows \cup {r \o q : r \in FirstRows, q \in SecondRows}

\* What stands before and after the rows of a table: a <thead> section or a
\* first row of header cells, with or without a header reading "status".
Frames ==
  { [pre |-> <<T_thead>> \o Row(<<Th(Txt(<<"N">>)), Th(W_Status)>>)
             \o <<T_thead_end, T_tbody>>,
     post |-> <<T_tbody_end>>],
    [pre |-> <<T_thead>>
             \o Row(<<Th(<<T_em>> \o Txt(<<" ","S","T","A","T","U","S">>)
                         \o <<T_em_end>>),
                      Th(Txt(<<"N">>))>>)
             \o <<T_thead_end, T_tbody>>,
     post |-> <<T_tbody_end>>],
    [pre |-> Row(<<Th(Txt(<<"N">>)), Th(W_Status)>>), post |-> <<>>],
    [pre |-> Row(<<<<T_th_left>> \o W_Status \o <<T_th_end>>,
                   Th(Txt(<<"N">>))>>),
     post |-> <<>>],
    [pre |-> <<T_thead>>
             \o Row(<<Th(Txt(<<"N">>)),
                      Th(Txt(<<"S","t","a","t","u","s","e","s">>))>>)
             \o <<T_thead_end, T_tbody>>,
     post |-> <<T_tbody_end>>],
    [pre |-> Row(<<Th(Txt(<<"N">>)), Th(Txt(<<"K">>))>>), post |-> <<>>],
    [pre |-> <<>>, post |-> <<>>] }

Table(frame, body) ==
  <<T_table>> \o frame.pre \o body \o frame.post \o <<T_table_end>>

OneTableDocs == {Table(f, b) : f \in Frames, b \in Bodies}

\* Documents of two tables with text around them, and rows outside any table.
SmallTables ==
  {Table(f, b) :
     f \in Frames,
     b \in {Row(<<Td(Txt(<<"x">>)), Td(W_DONE)>>),
            Row(<<Td(W_DONE), Td(W_DONE)>>)}}

TwoTableDocs ==
  {Txt(<<"a">>) \o t1 \o Txt(<<"\n">>) \o t2
     \o Row(<<Th(W_Status)>>) \o Row(<<Td(W_DONE)>>) :
     t1 \in SmallTables, t2 \in SmallTables}

Docs == OneTableDocs \cup TwoTableDocs

\* The overrides tried with every document.
DocOverrides ==
  { NotGiven,
    Given(<<[keyword |-> <<"t","o","d","o","s">>, isstr |-> TRUE,
             color_str |-> <<"#","1","1","2","2","3","3">>]>>) }

\* The document every override object is tried with.
FixedDoc ==
  Table([pre |-> Row(<<Th(W_Status)>>), post |-> <<>>],
        Row(<<Td(Txt(<<"E","X","I","S","T","S">>))>>)
        \o Row(<<Td(Txt(<<"F","O","O">>))>>)
        \o Row(<<Td(Txt(<<"T","O","D","O","S">>))>>))

(***************************************************************************)
(* main                                                                    *)
(***************************************************************************)
\* Lines 427-430: the map built, or the exit of parse_custom_colors.  At the
\* exit color_map holds the copy of the defaults made on line 427.
BuildResult(cc) ==
  LET custom == IF cc.given
                THEN parse_custom_colors(cc.raw)
                ELSE [ok |-> TRUE, result |-> <<>>, error |-> NoError]
  IN IF custom.ok
     THEN [ok |-> TRUE,
           color_map |-> DictUpdate(DEFAULT_STATUS_COLORS, custom.result),
           error |-> NoError]
     ELSE [ok |-> FALSE, color_map |-> DEFAULT_STATUS_COLORS,
           error |-> custom.error]

Init ==
  /\ md_content = <<>>
  /\ orientation = "unset"
  /\ value = <<>>
  /\ verdict = "unset"
  /\ \/ /\ html_body \in Docs
        /\ custom_colors \in DocOverrides
        /\ status_colors \in BOOLEAN
     \/ /\ html_body = FixedDoc
        /\ custom_colors \in
             {Given(raw) : raw \in OverrideObjects \cup TokenObjects}
        /\ status_colors = TRUE
  /\ color_map = <<>>
  /\ error = NoError
  /\ prev = <<>>
  /\ pc = "start"

\* Lines 426-430 with --status-colors.
BuildColorMap ==
  /\ pc = "start"
  /\ status_colors
  /\ LET r == BuildResult(custom_colors) IN
       /\ color_map' = r.color_map
       /\ error' = r.error
       /\ pc' = IF r.ok THEN "built" ELSE "exit"
  /\ UNCHANGED <<md_content, orientation, value, verdict, status_colors,
                 custom_colors, html_body, prev>>

\* Line 426 without --status-colors: the markup goes on as it is.
SkipColors ==
  /\ pc = "start"
  /\ ~status_colors
  /\ pc' = "plain"
  /\ UNCHANGED <<md_content, orientation, value, verdict, status_colors,
                 custom_colors, color_map, error, html_body, prev>>

\* Lines 434-437.
Annotate ==
  /\ pc = "built"
  /\ prev' = StripStrong(html_body, color_map)
  /\ html_body' = apply_status_colors(prev', color_map)
  /\ pc' = "annotated"
  /\ UNCHANGED <<md_content, orientation, value, verdict, status_colors,
                 custom_colors, color_map, error>>

\* apply_status_colors run again on its own output with the same map.
Reannotate ==
  /\ pc \in {"annotated", "reannotated"}
  /\ prev' = html_body
  /\ html_body' = apply_status_colors(html_body, color_map)
  /\ pc' = "reannotated"
  /\ UNCHANGED <<md_content, orientation, value, verdict, status_colors,
                 custom_colors, color_map, error>>

Next == BuildColorMap \/ SkipColors \/ Annotate \/ Reannotate

Spec == Init /\ [][Next]_vars

\* detect_orientation on its own.
InitOrient ==
  /\ md_content \in MdInputs
  /\ orientation = "unset"
  /\ value = <<>>
  /\ verdict = "unset"
  /\ status_colors = FALSE
  /\ custom_colors = NotGiven
  /\ color_map = <<>>
  /\ error = NoError
  /\ html_body = <<>>
  /\ prev = <<>>
  /\ pc = "start"

\* Line 418.
DetectOrientation ==
  /\ orientation = "unset"
  /\ orientation' = detect_orientation(md_content)
  /\ UNCHANGED <<md_content, value, verdict, status_colors, custom_colors,
                 color_map, error, html_body, prev, pc>>

NextOrient == DetectOrientation

SpecOrient == InitOrient /\ [][NextOrient]_vars

\* _is_valid_css_color on its own: lines 303-319.
InitValidate ==
  /\ md_content = <<>>
  /\ orientation = "unset"
  /\ value \in ColorTokens
  /\ verdict = "unset"
  /\ status_colors = FALSE
  /\ custom_colors = NotGiven
  /\ color_map = <<>>
  /\ error = NoError
  /\ html_body = <<>>
  /\ prev = <<>>
  /\ pc = "start"

Validate ==
  /\ verdict = "unset"
  /\ verdict' = IF _is_valid_css_color(value) THEN "accepted" ELSE "rejected"
  /\ UNCHANGED <<md_content, orientation, value, status_colors, custom_colors,
                 color_map, error, html_body, prev, pc>>

NextValidate == Validate

SpecValidate == InitValidate /\ [][NextValidate]_vars

(***************************************************************************)
(* Reading a well-formed document, for the statements below: where its     *)
(* tables, rows and cells are, and which column its header names "status". *)
(***************************************************************************)
\* k is a prefix of t.
IsPrefix(k, t) == Len(k) <= Len(t) /\ \A n \in 1..Len(k) : t[n] = k[n]

\* The first index after a whose lexeme is x: the tag that closes a's.
DocClose(h, a, x) == Min({q \in (a + 1)..Len(h) : h[q] = x})

\* <<a, b>>: each x between lo and hi that an y follows, and the first y
\* after it.
DocSpans(h, lo, hi, x, y) ==
  {<<a, DocClose(h, a, y)>> :
     a \in {q \in lo..hi : h[q] = x /\ \E r \in (q + 1)..hi : h[r] = y}}

\* <<a, b>>: a "<table>" and the "</table>" that closes it.
DocTables(h) == DocSpans(h, 1, Len(h), T_table, T_table_end)

\* <<i, j>>: a "<tr>" and its "</tr>", between a and b.
DocRows(h, a, b) == DocSpans(h, a, b, T_tr, T_tr_end)

DocIsTd(x) == Len(x) >= 4 /\ SubSeq(x, 1, 3) = <<"<","t","d">>

DocIsTh(x) ==
  /\ Len(x) >= 4
  /\ SubSeq(x, 1, 3) = <<"<","t","h">>
  /\ x[4] \in {">", " "}

\* The text a cell opened at p reads: its content up to the closing tag,
\* without inner tags, trimmed.
DocCellText(h, p, closing) ==
  Strip(PlainText(SubSeq(h, p + 1, DocClose(h, p, closing) - 1)))

\* The header row of the table <<a, b>>: its <thead> section, or else its
\* first row holding a header cell; {} when it has neither.
DocHeader(h, a, b) ==
  LET heads == DocSpans(h, a, b, T_thead, T_thead_end)
      rows == {ij \in DocRows(h, a, b) :
                 \E q \in ij[1]..ij[2] : DocIsTh(h[q])}
  IN IF heads # {} THEN heads
     ELSE {ij \in rows : \A r \in rows : ij[1] <= r[1]}

\* The columns (from 0) whose header cell reads "status" in any letter case.
DocStatusCols(h, a, b) ==
  UNION {{Cardinality({q \in ij[1]..(p - 1) : DocIsTh(h[q])}) :
            p \in {r \in ij[1]..ij[2] :
                     /\ DocIsTh(h[r])
                     /\ Lower(DocCellText(h, r, T_th_end)) = StatusWord}} :
         ij \in DocHeader(h, a, b)}

\* The tables with a status column, each with that column: <<a, b, c>>.
DocStatusTables(h) ==
  {<<ab[1], ab[2], Min(DocStatusCols(h, ab[1], ab[2]))>> :
     ab \in {t \in DocTables(h) : DocStatusCols(h, t[1], t[2]) # {}}}

\* The opening tags of the data cells of the row <<i, j>> at index c (from 0).
DocCellAt(h, i, j, c) ==
  {p \in i..j :
     /\ DocIsTd(h[p])
     /\ Cardinality({q \in i..(p - 1) : DocIsTd(h[q])}) = c}

Annotated == pc \in {"annotated", "reannotated"}

(***************************************************************************)
(* The annotator: C1, C2, C3, C9, C10                                      *)
(***************************************************************************)
\* C1: running apply_status_colors again on its own output, with the same
\* colour map, gives that output back unchanged.
C1_Idempotent == pc = "reannotated" => html_body = prev

\* C2: in a table with a status column, a data row made of data cells only
\* whose cell at that column reads exactly a keyword K of the colour map has
\* that cell's opening tag replaced by the style of K's own (bg, text) pair.
C2_ExactKeywordStyled ==
  Annotated =>
    \A t \in DocStatusTables(prev) :
      \A ij \in DocRows(prev, t[1], t[2]) :
        \A p \in DocCellAt(prev, ij[1], ij[2], t[3]) :
          \A n \in 1..Len(color_map) :
            ( /\ \A q \in ij[1]..ij[2] : ~DocIsTh(prev[q])
              /\ DocCellText(prev, p, T_td_end) = color_map[n].keyword )
            => html_body[p] = StyledTd(color_map[n].bg, color_map[n].text)

\* The lexemes outside every table that has a status column.
OutsideStatusTables(h) ==
  LET tables == DocStatusTables(h) IN
    {p \in 1..Len(h) : \A t \in tables : p < t[1] \/ p > t[2]}

\* C3: the output has the input's lexemes, one for one, and each lexeme
\* outside the tables that have a status column (text between tables, rows
\* outside tables, tables with no header row or no header reading "status")
\* is the input's.
C3_FrameOutsideStatusTables ==
  Annotated =>
    /\ Len(html_body) = Len(prev)
    /\ \A p \in OutsideStatusTables(prev) : html_body[p] = prev[p]

\* A sibling table is restyled while a table without a status column that
\* holds a keyword cell, and the text and rows around them, stay as they were.
C3_Witness ==
  /\ pc = "annotated"
  /\ html_body # prev
  /\ prev[1] = <<"a">>
  /\ \E t \in DocTables(prev) :
       /\ DocStatusCols(prev, t[1], t[2]) = {}
       /\ \E p \in t[1]..t[2] :
            DocIsTd(prev[p]) /\ DocCellText(prev, p, T_td_end) = <<"D","O","N","E">>
  /\ \E p \in OutsideStatusTables(prev) :
       DocIsTd(prev[p]) /\ \A t \in DocTables(prev) : p > t[2]

\* C9: in a data row of a table with a status column, the one lexeme the
\* annotator may change is the opening tag of the data cell at the status
\* column's index; a row too short to have that cell is unchanged.
C9_OnlyStatusCellTag ==
  Annotated =>
    \A t \in DocStatusTables(prev) :
      \A ij \in DocRows(prev, t[1], t[2]) :
        \A p \in ij[1]..ij[2] :
          html_body[p] # prev[p] => p \in DocCellAt(prev, ij[1], ij[2], t[3])

\* The keywords of the map that the text t equals or starts with.
MatchingKeywords(t) ==
  {n \in 1..Len(color_map) : IsPrefix(color_map[n].keyword, t)}

\* C10: for a status cell reading t, the style written into the row is that
\* of the first keyword, in the map's order, that t equals or starts with,
\* compared letter case and all, and no other style; when no keyword is a
\* prefix of t the row is unchanged.
C10_FirstMatchingKeyword ==
  Annotated =>
    \A t \in DocStatusTables(prev) :
      \A ij \in DocRows(prev, t[1], t[2]) :
        \A p \in DocCellAt(prev, ij[1], ij[2], t[3]) :
          LET M == MatchingKeywords(DocCellText(prev, p, T_td_end)) IN
            IF M = {}
            THEN \A q \in ij[1]..ij[2] : html_body[q] = prev[q]
            ELSE LET e == color_map[Min(M)]
                     styled == StyledTd(e.bg, e.text)
                 IN /\ \A q \in ij[1]..ij[2] :
                         html_body[q] # prev[q] => html_body[q] = styled
                    /\ \E q \in ij[1]..ij[2] :
                         DocIsTd(prev[q]) /\ html_body[q] = styled

\* A cell reading TODOS takes the style of the earlier keyword TODO although
\* TODOS is a keyword of the map, a cell reading " N/A x " takes N/A's, and
\* a cell reading "done" is left alone.
C10_Witness ==
  /\ pc = "annotated"
  /\ \E n \in 1..Len(color_map) : color_map[n].keyword = <<"T","O","D","O","S">>
  /\ \E t \in DocStatusTables(prev) :
       \E ij \in DocRows(prev, t[1], t[2]) :
         \E p \in DocCellAt(prev, ij[1], ij[2], t[3]) :
           /\ DocCellText(prev, p, T_td_end) = <<"T","O","D","O","S">>
           /\ html_body[p] = StyledTd(DEFAULT_STATUS_COLORS[4].bg,
                                      DEFAULT_STATUS_COLORS[4].text)

\* A row of two cells of the same markup, the second in the status column.
C1_Reached ==
  /\ pc = "reannotated"
  /\ \E t \in DocStatusTables(prev) :
       \E ij \in DocRows(prev, t[1], t[2]) :
         \E p \in DocCellAt(prev, ij[1], ij[2], t[3]) : html_body[p] # prev[p]

(***************************************************************************)
(* detect_orientation: C4                                                  *)
(***************************************************************************)
\* The characters i..j of md are a line: no line break in them, and a line
\* break or the text's end on either side.
IsLine(md, i, j) ==
  /\ \A k \in i..j : md[k] \notin LineBreaks
  /\ i = 1 \/ md[i - 1] \in LineBreaks
  /\ j = Len(md) \/ md[j + 1] \in LineBreaks

\* A line that, trimmed, starts and ends with "|" and has at least 5 of them.
HasWideLine(md) ==
  \E i \in 1..Len(md) : \E j \in i..Len(md) :
    /\ IsLine(md, i, j)
    /\ \E a \in i..j : \E b \in a..j :
         /\ md[a] = "|"
         /\ md[b] = "|"
         /\ \A k \in i..(a - 1) : md[k] \in Whitespace
         /\ \A k \in (b + 1)..j : md[k] \in Whitespace
    /\ Cardinality({k \in i..j : md[k] = "|"}) - 1 >= 4

\* C4: detect_orientation answers "landscape" exactly when some line,
\* trimmed, starts and ends with "|" and has at least 4 columns (pipes less
\* one), and "portrait" otherwise.
C4_LandscapeIffWideLine ==
  orientation # "unset" =>
    /\ orientation \in {"landscape", "portrait"}
    /\ orientation = "landscape" <=> HasWideLine(md_content)

\* A 4-column row after a 1-column row on a line of its own.
C4_Witness ==
  /\ orientation = "landscape"
  /\ md_content = <<"|", "\n", "|", "|", "|", "|", "|">>

(***************************************************************************)
(* _is_valid_css_color: C5                                                  *)
(***************************************************************************)
\* "#" followed by hexadecimal digits only, at least one.
IsHashHex(t) ==
  /\ Len(t) >= 2
  /\ t[1] = "#"
  /\ \A i \in 2..Len(t) : t[i] \in HexDigits

\* C5: a trimmed token that is "#" and hexadecimal digits is accepted only
\* with 3, 4, 6 or 8 digits; the empty string, and every token that is
\* neither "#..." nor "rgb..." nor a named colour, is rejected; the answer is
\* always one of the two.
C5_HexDigitCounts ==
  verdict # "unset" =>
    LET t == Strip(value) IN
      /\ verdict \in {"accepted", "rejected"}
      /\ IsHashHex(t) =>
           (verdict = "accepted" <=> Len(t) - 1 \in {3, 4, 6, 8})
      /\ t = <<>> => verdict = "rejected"
      /\ ( /\ t # <<>>
           /\ t[1] # "#"
           /\ ~IsPrefix(<<"r","g","b">>, t)
           /\ Lower(t) \notin NamedColors ) => verdict = "rejected"

(***************************************************************************)
(* The colour map: C6, C7, C8                                              *)
(***************************************************************************)
\* The override object given, empty when none is.
Overrides == IF custom_colors.given THEN custom_colors.raw ELSE <<>>

\* k with each lower-case letter replaced by its capital.
Capitals(k) ==
  [i \in 1..Len(k) |-> IF k[i] \in DOMAIN UpperOf THEN UpperOf[k[i]] ELSE k[i]]

ColonAt(v) == {i \in 1..Len(v) : v[i] = ":"}

\* The background an override value names: all of it, or what stands before
\* its first colon.
BackgroundOf(v) ==
  IF ColonAt(v) = {} THEN v ELSE SubSeq(v, 1, Min(ColonAt(v)) - 1)

\* The text colour it names: the fixed dark colour, or all that follows its
\* first colon (the further segments, colons and all).
TextOf(v) ==
  IF ColonAt(v) = {} THEN <<"#","1","a","1","a","1","a">>
  ELSE SubSeq(v, Min(ColonAt(v)) + 1, Len(v))

DefaultKeywords ==
  {DEFAULT_STATUS_COLORS[i].keyword : i \in 1..Len(DEFAULT_STATUS_COLORS)}

\* The last override whose keyword, in capitals, is k; 0 when there is none.
LastOverride(k) ==
  LET S == {i \in 1..Len(Overrides) : Capitals(Overrides[i].keyword) = k} IN
    IF S = {} THEN 0 ELSE CHOOSE i \in S : \A j \in S : j <= i

\* The first override whose keyword, in capitals, is k.
FirstOverride(k) ==
  Min({i \in 1..Len(Overrides) : Capitals(Overrides[i].keyword) = k})

\* C6: the map built from the defaults and a valid override object holds the
\* default keywords in their order, then the new keywords, in capitals, in
\* the order they first appear; no keyword twice; each keyword with the whole
\* pair of the last override of that keyword, or the default's pair when
\* there is none; a value without a colon gives the text colour #1a1a1a, a
\* value with colons its first segment as background and the rest as text
\* (which a rejected value shows in the error it is quoted in).
C6_MapFromDefaultsAndOverrides ==
  LET n == Len(DEFAULT_STATUS_COLORS) IN
    /\ pc \in {"built", "annotated", "reannotated"} =>
         /\ Len(color_map) >= n
         /\ \A i \in 1..n :
              color_map[i].keyword = DEFAULT_STATUS_COLORS[i].keyword
         /\ \A i, j \in 1..Len(color_map) :
              color_map[i].keyword = color_map[j].keyword => i = j
         /\ \A i \in 1..Len(Overrides) :
              \E j \in 1..Len(color_map) :
                color_map[j].keyword = Capitals(Overrides[i].keyword)
         /\ \A i \in 1..Len(color_map) :
              LET o == LastOverride(color_map[i].keyword) IN
                IF o = 0
                THEN i <= n /\ color_map[i] = DEFAULT_STATUS_COLORS[i]
                ELSE /\ color_map[i].bg = BackgroundOf(Overrides[o].color_str)
                     /\ color_map[i].text = TextOf(Overrides[o].color_str)
         /\ \A i, j \in (n + 1)..Len(color_map) :
              i < j => FirstOverride(color_map[i].keyword)
                       < FirstOverride(color_map[j].keyword)
    /\ pc = "exit" /\ error.kind \in {"background", "text"} =>
         \E i \in 1..Len(Overrides) :
           /\ Overrides[i].keyword = error.keyword
           /\ error.bad = IF error.kind = "background"
                          THEN BackgroundOf(Overrides[i].color_str)
                          ELSE TextOf(Overrides[i].color_str)

\* An override spelled "exists" replaces the pair of EXISTS in place, and a
\* new keyword given a background only goes last with the dark text colour.
C6_Witness ==
  /\ pc = "built"
  /\ Len(color_map) = Len(DEFAULT_STATUS_COLORS) + 1
  /\ color_map[1].keyword = <<"E","X","I","S","T","S">>
  /\ color_map[1].bg = <<"#","1","1","1","1","1","1">>
  /\ color_map[1].text = <<"#","e","e","e","e","e","e">>
  /\ color_map[Len(color_map)].keyword = <<"F","O","O">>
  /\ color_map[Len(color_map)].text = <<"#","1","a","1","a","1","a">>
  /\ Overrides[1].keyword = <<"f","o","o">>

\* The side of override i the validator rejects first: background before
\* text; "none" when it accepts both or the value is no string.
RejectedSide(i) ==
  LET v == Overrides[i].color_str IN
    IF ~Overrides[i].isstr THEN "none"
    ELSE IF ~_is_valid_css_color(BackgroundOf(v)) THEN "background"
    ELSE IF ~_is_valid_css_color(TextOf(v)) THEN "text"
    ELSE "none"

\* C7: when the validator rejects the background or the text of an override,
\* main never gets past building the map: it exits, the annotator never run
\* and no override in the map; the error names the first rejected override's
\* keyword and side when all values are strings, and in any case a keyword
\* and side the validator does reject.  A map that is built holds every
\* override.
C7_FatalOnRejectedOverride ==
  LET bad == {i \in 1..Len(Overrides) : RejectedSide(i) # "none"} IN
    /\ bad # {} => pc \in {"start", "exit"}
    /\ pc = "exit" =>
         /\ color_map = DEFAULT_STATUS_COLORS
         /\ prev = <<>>
         /\ error.kind # "none"
         /\ error.kind \in {"background", "text"} =>
              \E i \in bad :
                /\ Overrides[i].keyword = error.keyword
                /\ RejectedSide(i) = error.kind
         /\ (bad # {} /\ \A i \in 1..Len(Overrides) : Overrides[i].isstr) =>
              /\ error.keyword = Overrides[Min(bad)].keyword
              /\ error.kind = RejectedSide(Min(bad))
    /\ pc \in {"built", "annotated", "reannotated"} =>
         \A i \in 1..Len(Overrides) :
           \E j \in 1..Len(color_map) :
             /\ color_map[j].keyword = Capitals(Overrides[i].keyword)
             /\ LastOverride(color_map[j].keyword) # 0

\* A valid override followed by one whose text colour is rejected.
C7_Witness ==
  /\ pc = "exit"
  /\ Len(Overrides) = 2
  /\ RejectedSide(1) = "none"
  /\ Overrides[1].isstr
  /\ error.kind = "text"
  /\ error.keyword = Overrides[2].keyword

\* What may not stand in a value put between the quotes of a style
\* attribute.
UnsafeChars == {"\"", "<", ">", ";", ":", "\\"}

IsSafe(v) == \A i \in 1..Len(v) : v[i] \notin UnsafeChars

\* C8: no colour of a built map holds a double quote, "<", ">", ";", ":" or
\* a backslash, and each opening tag the annotator wrote is one tag whose
\* style attribute holds the three declarations background-color, color and
\* font-weight and nothing else.
C8_ColorsSafeInStyle ==
  pc \in {"built", "annotated", "reannotated"} =>
    /\ \A i \in 1..Len(color_map) :
         IsSafe(color_map[i].bg) /\ IsSafe(color_map[i].text)
    /\ \A p \in 1..Len(html_body) :
         IsPrefix(StyleOpen, html_body[p]) =>
           LET x == html_body[p] IN
             /\ \E i \in 1..Len(color_map) :
                  x = StyleOpen \o color_map[i].bg \o StyleMid
                      \o color_map[i].text \o StyleClose
             /\ Count(x, ";") = 3
             /\ Count(x, ":") = 3
             /\ Count(x, "\"") = 2
             /\ Count(x, "<") = 1
             /\ Count(x, ">") = 1

\* A cell styled with an override's colours as the user wrote them, blanks
\* and capitals kept.
C8_Witness ==
  /\ pc = "annotated"
  /\ \E p \in 1..Len(html_body) :
       html_body[p] = StyledTd(<<" ","r","e","d"," ">>, <<" ","B","l","u","e"," ">>)

====
